---- MODULE Spec2Model ----
(***************************************************************************)
(* Audio voice management engine of the Fluffy Diver PS Vita port          *)
(* (src/source/audio.c): the pool of playback sources, the admission and   *)
(* eviction policy, the completion reaper thread, the enable flags and the *)
(* volume settings.                                                        *)
(* The OpenAL backend and the file system are the environment: the device  *)
(* may fail to open, a playing source may stop at any time, and loading a  *)
(* .wav file may fail.                                                     *)
(* Spec, SpecCategory and SpecVolume take each call of the API and each    *)
(* pass of the audio thread as one step; SpecThreads interleaves the steps *)
(* of the game thread and of the audio thread.                             *)
(***************************************************************************)
EXTENDS Integers, Sequences, FiniteSets, TLC

(* ------------------------------ bounds -------------------------------- *)

\* Size of the source pool (32 in audio.c:26), scaled down.
MAX_AUDIO_SOURCES == 2

\* Size of the buffer ring (64 in audio.c:27), scaled down.
MAX_AUDIO_BUFFERS == 2

\* audio_play_sound is not called once next_sound_id has passed this value.
MaxSoundId == 3

\* The reaper and audio_mark_complete are not run once active_sources would
\* fall more than this below the number of active slots.
MaxDrift == 1

(* --------------------------- program constants ------------------------ *)

\* Initial value of lowest_priority in the stealing scan.
STEAL_SENTINEL == 1000

\* Priority audio_play_music passes to audio_play_sound.
MUSIC_PRIORITY == 100

\* A float is held as the number of its ten-thousandths, so that a product
\* of up to four volumes given in tenths is exact: this is 1.0f.
FLOAT_ONE == 10000

\* master_volume, music_volume and sfx_volume as audio_init sets them.
DEFAULT_MASTER_VOLUME == 10000

DEFAULT_MUSIC_VOLUME == 7000

DEFAULT_SFX_VOLUME == 8000

(* ------------------------------ inputs -------------------------------- *)

Slots == 0 .. (MAX_AUDIO_SOURCES - 1)

\* Caller-supplied priorities (any int in the code).
Priorities == {1, STEAL_SENTINEL}

\* A const char *: NULL, or a string given as its characters.
NullName == [null |-> TRUE, chars |-> <<>>]

Str(s) == [null |-> FALSE, chars |-> s]

Filenames ==
    { NullName,
      Str(<<>>),
      Str(<<"a", ".", "w", "a", "v">>),
      Str(<<"B", ".", "W", "a", "V">>),
      Str(<<"c", ".", "o", "g", "g">>),
      Str(<<"d", ".", "m", "p", "3">>),
      Str(<<"e", ".", "w", "a", "v", ".", "t", "x", "t">>),
      Str(<<"w", "a", "v">>),
      Str(<<"m", ".", "w", "a", "v">>) }

\* The files load_wav_file can open and read completely.
ReadableFiles ==
    { Str(<<"a", ".", "w", "a", "v">>),
      Str(<<"B", ".", "W", "a", "V">>),
      Str(<<"c", ".", "o", "g", "g">>),
      Str(<<"d", ".", "m", "p", "3">>),
      Str(<<"w", "a", "v">>) }

\* Arguments of audio_stop_sound and audio_mark_complete.
SoundIds == (-1) .. (MaxSoundId + 1)

\* A float argument that may be not-a-number: the number v, and NaN.
Num(v) == [nan |-> FALSE, v |-> v]

NaN == [nan |-> TRUE, v |-> 0]

\* Arguments of the volume setters: -0.5, 0.5, 2.0 and NaN.
VolumeInputs == {Num(-5000), Num(5000), Num(20000), NaN}

\* The volume argument of audio_play_sound and audio_play_music: -0.5, 0.5,
\* 1.0 and 2.0.
CallVolumes == {-5000, 5000, FLOAT_ONE, 20000}

(* ------------------------------- state -------------------------------- *)

VARIABLES
    initialized,          \* audio_state.initialized
    audio_enabled,        \* audio_state.audio_enabled
    music_enabled,        \* audio_state.music_enabled
    sfx_enabled,          \* audio_state.sfx_enabled
    sources,              \* audio_state.sources[]: the pool
    al_state,             \* AL_SOURCE_STATE of each backend source
    active_sources,       \* audio_state.active_sources
    next_sound_id,        \* audio_state.next_sound_id
    next_buffer_index,    \* audio_state.next_buffer_index
    audio_thread_running, \* audio_state.audio_thread_running
    master_volume,        \* audio_state.master_volume
    music_volume,         \* audio_state.music_volume
    sfx_volume,           \* audio_state.sfx_volume
    al_gain,              \* AL_GAIN of each backend source
    al_context,           \* an OpenAL context is current
    al_listener_gain,     \* AL_GAIN of the listener of the current context
    reaper,               \* the audio thread: where it is in audio_thread_func
    caller,               \* the game thread: where it is in the call it runs
    call                  \* the last call: its arguments, result and effects

vars == <<initialized, audio_enabled, music_enabled, sfx_enabled, sources,
          al_state, active_sources, next_sound_id, next_buffer_index,
          audio_thread_running, master_volume, music_volume, sfx_volume,
          al_gain, al_context, al_listener_gain, reaper, caller, call>>

\* The three volume settings.
mixer == <<master_volume, music_volume, sfx_volume>>

\* The positions of the two threads.
threads == <<reaper, caller>>

\* A slot as setup_audio_sources (and the zeroed static) leaves it.
FreeSource ==
    [active |-> FALSE, playing |-> FALSE, looping |-> FALSE,
     sound_id |-> 0, priority |-> 0, buffer |-> 0]

\* The record kept of the last call.
NoCall ==
    [op |-> "none", ret |-> 0, slot |-> -1, rule |-> 0, cbs |-> <<>>]

\* The audio thread before sceKernelStartThread and after
\* sceKernelDeleteThread.
NoThread == [pc |-> "none", i |-> 0]

\* The audio thread at the test of its while loop.
ThreadAtLoop == [pc |-> "loop", i |-> 0]

\* The game thread between two calls.
Idle ==
    [pc |-> "idle", slot |-> -1, buffer |-> 0, looping |-> FALSE,
     priority |-> 0]

(* ------------------------- format detection --------------------------- *)

\* tolower() on the characters used.
ToLower(c) ==
    CASE c = "W" -> "w"
      [] c = "A" -> "a"
      [] c = "V" -> "v"
      [] c = "B" -> "b"
      [] OTHER -> c

LowerSeq(s) == [k \in 1 .. Len(s) |-> ToLower(s[k])]

\* strrchr(filename, '.'): the suffix from the last '.', or <<>> for NULL.
StrRChrDot(s) ==
    LET dots == {k \in 1 .. Len(s) : s[k] = "."}
    IN  IF dots = {} THEN <<>>
        ELSE LET last == CHOOSE k \in dots : \A j \in dots : j <= k
             IN  SubSeq(s, last, Len(s))

detect_audio_format(filename) ==
    IF filename.null THEN "UNKNOWN"
    ELSE LET ext == StrRChrDot(filename.chars)
         IN  IF ext = <<>> THEN "UNKNOWN"
             ELSE IF LowerSeq(ext) = <<".", "w", "a", "v">> THEN "WAV"
             ELSE IF LowerSeq(ext) = <<".", "o", "g", "g">> THEN "OGG"
             ELSE IF LowerSeq(ext) = <<".", "m", "p", "3">> THEN "MP3"
             ELSE "UNKNOWN"

(* --------------------------- voice pool -------------------------------- *)

\* A release that forgets to reset sound_id.
MutReleaseKeepsId(srcs, i) ==
    [srcs EXCEPT ![i].active = FALSE, ![i].playing = FALSE]

\* active = 0; playing = 0; sound_id = 0 on slot i.
ReleaseSlot(srcs, i) ==
    [srcs EXCEPT ![i].active = FALSE, ![i].playing = FALSE, ![i].sound_id = 0]

\* alSourceStop: a playing source becomes stopped, any other keeps its state.
AlStop(al, i) ==
    [al EXCEPT ![i] = IF al[i] = "playing" THEN "stopped" ELSE al[i]]

\* The stealing scan: the loop over i with lowest_priority and lowest_index.
RECURSIVE StealScan(_, _, _, _)
StealScan(srcs, i, lowest_priority, lowest_index) ==
    IF i >= MAX_AUDIO_SOURCES THEN lowest_index
    ELSE IF srcs[i].active /\ srcs[i].priority < lowest_priority
         THEN StealScan(srcs, i + 1, srcs[i].priority, i)
         ELSE StealScan(srcs, i + 1, lowest_priority, lowest_index)

\* The least element of a nonempty set of slots: the first hit of a scan.
MinSlot(S) == CHOOSE i \in S : \A j \in S : i <= j

\* An admission that reclaims a finished voice before it looks for a free
\* slot.
MutFinishedBeforeFree(srcs, al, cnt) ==
    LET free == {i \in Slots : ~srcs[i].active}
        done == {i \in Slots : srcs[i].active /\ al[i] = "stopped"}
        lowest_index == StealScan(srcs, 0, STEAL_SENTINEL, -1)
    IN  IF done /= {}
        THEN [idx |-> MinSlot(done),
              sources |-> ReleaseSlot(srcs, MinSlot(done)),
              al |-> al, count |-> cnt - 1, rule |-> 2]
        ELSE IF free /= {}
        THEN [idx |-> MinSlot(free), sources |-> srcs, al |-> al,
              count |-> cnt, rule |-> 1]
        ELSE IF lowest_index >= 0
        THEN [idx |-> lowest_index,
              sources |-> ReleaseSlot(srcs, lowest_index),
              al |-> AlStop(al, lowest_index), count |-> cnt - 1,
              rule |-> 3]
        ELSE [idx |-> -1, sources |-> srcs, al |-> al, count |-> cnt,
              rule |-> 0]

\* get_available_source on pool srcs, backend al and counter cnt: the index
\* returned (-1 for none), the pool, backend and counter it leaves, and the
\* rule that yielded the slot (1 free, 2 finished, 3 stolen, 0 none).
get_available_source(srcs, al, cnt) ==
    LET free == {i \in Slots : ~srcs[i].active}
        done == {i \in Slots : srcs[i].active /\ al[i] = "stopped"}
        lowest_index == StealScan(srcs, 0, STEAL_SENTINEL, -1)
    IN  IF free /= {}
        THEN [idx |-> MinSlot(free), sources |-> srcs, al |-> al,
              count |-> cnt, rule |-> 1]
        ELSE IF done /= {}
        THEN [idx |-> MinSlot(done),
              sources |-> ReleaseSlot(srcs, MinSlot(done)),
              al |-> al, count |-> cnt - 1, rule |-> 2]
        ELSE IF lowest_index >= 0
        THEN [idx |-> lowest_index,
              sources |-> ReleaseSlot(srcs, lowest_index),
              al |-> AlStop(al, lowest_index), count |-> cnt - 1,
              rule |-> 3]
        ELSE [idx |-> -1, sources |-> srcs, al |-> al, count |-> cnt,
              rule |-> 0]

\* audio_mark_complete(sound_id) on pool srcs and counter cnt.
audio_mark_complete(srcs, cnt, sound_id) ==
    LET hit == {i \in Slots : srcs[i].sound_id = sound_id}
    IN  IF hit = {} THEN [sources |-> srcs, count |-> cnt]
        ELSE [sources |-> ReleaseSlot(srcs, MinSlot(hit)), count |-> cnt - 1]

\* A reaper test that does not look at the active flag.
MutCompletedIgnoresActive(src, state) ==
    state = "stopped" /\ ~src.looping

\* A reaper test that does not look at the looping flag.
MutCompletedIgnoresLooping(src, state) ==
    src.active /\ state = "stopped"

\* The test of cleanup_completed_sources on one slot: active, reported
\* stopped by the backend, and not looping.
Completed(src, state) ==
    src.active /\ state = "stopped" /\ ~src.looping

\* A reaper that clears the slot's id before it calls audio_mark_complete.
RECURSIVE MutCleanupClearsFirst(_, _, _)
MutCleanupClearsFirst(i, al, st) ==
    IF i >= MAX_AUDIO_SOURCES THEN st
    ELSE IF Completed(st.sources[i], al[i])
         THEN LET s1 == [st.sources EXCEPT ![i].active = FALSE,
                                           ![i].playing = FALSE,
                                           ![i].sound_id = 0]
                  id == s1[i].sound_id
                  mc == audio_mark_complete(s1, st.count, id)
              IN  MutCleanupClearsFirst(i + 1, al,
                     [sources |-> mc.sources, count |-> mc.count - 1,
                      cbs |-> Append(st.cbs, id)])
         ELSE MutCleanupClearsFirst(i + 1, al, st)

\* The loop of cleanup_completed_sources from slot i on: st holds the pool,
\* the counter and the ids passed to audio_mark_complete so far.
RECURSIVE CleanupLoop(_, _, _)
CleanupLoop(i, al, st) ==
    IF i >= MAX_AUDIO_SOURCES THEN st
    ELSE IF Completed(st.sources[i], al[i])
         THEN LET s1 == [st.sources EXCEPT ![i].active = FALSE,
                                           ![i].playing = FALSE]
                  id == s1[i].sound_id
                  mc == audio_mark_complete(s1, st.count, id)
                  s2 == [mc.sources EXCEPT ![i].sound_id = 0]
              IN  CleanupLoop(i + 1, al,
                     [sources |-> s2, count |-> mc.count - 1,
                      cbs |-> Append(st.cbs, id)])
         ELSE CleanupLoop(i + 1, al, st)

cleanup_completed_sources(srcs, al, cnt) ==
    CleanupLoop(0, al, [sources |-> srcs, count |-> cnt, cbs |-> <<>>])

\* Number of slots whose active flag is set.
ActiveCount(srcs) == Cardinality({i \in Slots : srcs[i].active})

(* ------------------------------ playback ------------------------------- *)

\* get_available_buffer: the index handed out and the next index.
get_available_buffer(nbi) ==
    [idx |-> nbi, next |-> (nbi + 1) % MAX_AUDIO_BUFFERS]

\* The outcome of a call that returns early and touches nothing.
PlayUntouched(r) ==
    [ret |-> r, sources |-> sources, al |-> al_state,
     count |-> active_sources, nsid |-> next_sound_id,
     nbi |-> next_buffer_index, gain |-> al_gain, slot |-> -1, rule |-> 0]

\* The product of two floats.
FMul(a, b) == (a * b) \div FLOAT_ONE

\* fminf and fmaxf: when one argument is not a number the other is returned.
fminf(a, b) ==
    IF a.nan THEN b ELSE IF b.nan THEN a ELSE IF a.v < b.v THEN a ELSE b

fmaxf(a, b) ==
    IF a.nan THEN b ELSE IF b.nan THEN a ELSE IF a.v > b.v THEN a ELSE b

\* A setter that stores its argument unclamped.
MutClampIdentity(volume) == volume.v

\* fmaxf(0.0f, fminf(1.0f, volume)) of the volume setters: a number, since
\* the two constants are numbers.
ClampVolume(volume) == fmaxf(Num(0), fminf(Num(FLOAT_ONE), volume)).v

\* alSourcef(source, AL_GAIN, value) on source i: without a current context
\* the call does nothing, and a negative value is refused with
\* AL_INVALID_VALUE and leaves the gain as it was.
alSourcef_GAIN(gain, i, value) ==
    IF ~al_context \/ value < 0 THEN gain ELSE [gain EXCEPT ![i] = value]

\* alSourcePlay on source i: without a current context the call does nothing.
alSourcePlay(al, i) ==
    IF al_context THEN [al EXCEPT ![i] = "playing"] ELSE al

\* An early return that does not look at audio_enabled.
MutPlayRefusedIgnoresEnable == ~initialized

\* The early return of audio_play_sound: not initialized or audio disabled.
PlayRefused == ~initialized \/ ~audio_enabled

\* The early return of audio_play_music: not initialized or music disabled.
MusicRefused == ~initialized \/ ~music_enabled

\* An id counter that is not advanced.
MutNextSoundIdStuck(n) == n

\* next_sound_id++.
NextSoundId(n) == n + 1

\* load_wav_file: fails when the file cannot be opened or read, and when
\* alGetError reports an error after alBufferData, as it does without a
\* current context.
load_wav_file(filename) == filename \in ReadableFiles /\ al_context

\* load_ogg_file: not implemented, always fails.
load_ogg_file(filename) == FALSE

\* final_volume = volume * master_volume * sfx_volume.
FinalVolume(volume) == FMul(FMul(volume, master_volume), sfx_volume)

\* audio_play_sound(filename, volume, looping, priority).
audio_play_sound(filename, volume, looping, priority) ==
    IF PlayRefused THEN PlayUntouched(-1)
    ELSE IF filename.null \/ Len(filename.chars) = 0 THEN PlayUntouched(-1)
    ELSE
      LET g == get_available_source(sources, al_state, active_sources)
      IN  IF g.idx < 0 THEN PlayUntouched(-1)
          ELSE
            LET b == get_available_buffer(next_buffer_index)
                format == detect_audio_format(filename)
                load_result == IF format = "WAV" THEN load_wav_file(filename)
                               ELSE load_ogg_file(filename)
                failed ==
                    [ret |-> -1, sources |-> g.sources, al |-> g.al,
                     count |-> g.count, nsid |-> next_sound_id,
                     nbi |-> b.next, gain |-> al_gain, slot |-> g.idx,
                     rule |-> g.rule]
            IN  IF format = "UNKNOWN" THEN failed
                ELSE IF format \notin {"WAV", "OGG"} THEN failed
                ELSE IF ~load_result THEN failed
                ELSE
                  [ret |-> next_sound_id,
                   sources |->
                     [g.sources EXCEPT ![g.idx] =
                        [active |-> TRUE, playing |-> TRUE,
                         looping |-> looping, sound_id |-> next_sound_id,
                         priority |-> priority, buffer |-> b.idx + 1]],
                   al |-> alSourcePlay(g.al, g.idx),
                   count |-> g.count + 1,
                   nsid |-> NextSoundId(next_sound_id),
                   nbi |-> b.next,
                   gain |-> alSourcef_GAIN(al_gain, g.idx,
                                           FinalVolume(volume)),
                   slot |-> g.idx, rule |-> g.rule]

\* audio_play_music(filename, volume, looping).
audio_play_music(filename, volume, looping) ==
    IF MusicRefused THEN PlayUntouched(-1)
    ELSE audio_play_sound(filename, FMul(volume, music_volume), looping,
                          MUSIC_PRIORITY)

\* The variables a play call leaves, from its outcome r.
ApplyPlay(r, op) ==
    /\ sources' = r.sources
    /\ al_state' = r.al
    /\ active_sources' = r.count
    /\ next_sound_id' = r.nsid
    /\ next_buffer_index' = r.nbi
    /\ al_gain' = r.gain
    /\ call' = [NoCall EXCEPT !.op = op, !.ret = r.ret, !.slot = r.slot,
                              !.rule = r.rule]
    /\ UNCHANGED <<initialized, audio_enabled, music_enabled, sfx_enabled,
                   audio_thread_running, mixer, al_context, al_listener_gain,
                   threads>>

(* ------------------------------- actions ------------------------------- *)

\* The zeroed static audio_state, before audio_init.
Init ==
    /\ initialized = FALSE
    /\ audio_enabled = FALSE
    /\ music_enabled = FALSE
    /\ sfx_enabled = FALSE
    /\ sources = [i \in Slots |-> FreeSource]
    /\ al_state = [i \in Slots |-> "initial"]
    /\ active_sources = 0
    /\ next_sound_id = 0
    /\ next_buffer_index = 0
    /\ audio_thread_running = FALSE
    /\ master_volume = 0
    /\ music_volume = 0
    /\ sfx_volume = 0
    /\ al_gain = [i \in Slots |-> FLOAT_ONE]
    /\ al_context = FALSE
    /\ al_listener_gain = FLOAT_ONE
    /\ reaper = NoThread
    /\ caller = Idle
    /\ call = NoCall

\* An audio_init that leaves the music volume as it finds it.
MutInitKeepsMusicVolume ==
    [initialized |-> TRUE,
     master_volume |-> DEFAULT_MASTER_VOLUME,
     music_volume |-> music_volume,
     sfx_volume |-> DEFAULT_SFX_VOLUME,
     audio_enabled |-> TRUE, music_enabled |-> TRUE, sfx_enabled |-> TRUE,
     active_sources |-> 0, next_sound_id |-> 1, next_buffer_index |-> 0,
     audio_thread_running |-> TRUE, ret |-> 1]

\* The fields audio_init assigns, and the value it returns.
audio_init ==
    [initialized |-> TRUE,
     master_volume |-> DEFAULT_MASTER_VOLUME,
     music_volume |-> DEFAULT_MUSIC_VOLUME,
     sfx_volume |-> DEFAULT_SFX_VOLUME,
     audio_enabled |-> TRUE, music_enabled |-> TRUE, sfx_enabled |-> TRUE,
     active_sources |-> 0, next_sound_id |-> 1, next_buffer_index |-> 0,
     audio_thread_running |-> TRUE, ret |-> 1]

\* setup_audio_sources: every slot reset, every backend source fresh.
setup_audio_sources == [i \in Slots |-> FreeSource]

\* alListenerf(AL_GAIN, value): the gain of the listener of the current
\* context; without a current context, or for a negative value, the call
\* fails and the gain stays.
alListenerf_GAIN(listener, context, value) ==
    IF context /\ value >= 0 THEN value ELSE listener

\* initialize_openal: opens the device and the context and sets the
\* listener's gain from audio_state.master_volume as it is at that moment,
\* which is before audio_init assigns the default; it returns early when
\* the device or the context cannot be opened (opened = FALSE).
initialize_openal(opened) ==
    [context |-> opened,
     listener |-> alListenerf_GAIN(FLOAT_ONE, opened, master_volume)]

\* audio_init, called once at startup and again only after audio_cleanup.
\* initialize_openal returns early when the device or the context cannot be
\* opened (opened = FALSE) and audio_init goes on all the same.
AudioInit ==
    /\ ~initialized
    /\ caller.pc = "idle"
    /\ \E opened \in BOOLEAN :
          /\ al_context' = initialize_openal(opened).context
          /\ al_listener_gain' = initialize_openal(opened).listener
    /\ initialized' = audio_init.initialized
    /\ master_volume' = audio_init.master_volume
    /\ music_volume' = audio_init.music_volume
    /\ sfx_volume' = audio_init.sfx_volume
    /\ audio_enabled' = audio_init.audio_enabled
    /\ music_enabled' = audio_init.music_enabled
    /\ sfx_enabled' = audio_init.sfx_enabled
    /\ sources' = setup_audio_sources
    /\ al_state' = [i \in Slots |-> "initial"]
    /\ al_gain' = [i \in Slots |-> FLOAT_ONE]
    /\ active_sources' = audio_init.active_sources
    /\ next_sound_id' = audio_init.next_sound_id
    /\ next_buffer_index' = audio_init.next_buffer_index
    /\ audio_thread_running' = audio_init.audio_thread_running
    /\ reaper' = ThreadAtLoop
    /\ caller' = caller
    /\ call' = [NoCall EXCEPT !.op = "init", !.ret = audio_init.ret]

\* audio_play_sound at full volume.
AudioPlaySound ==
    /\ next_sound_id <= MaxSoundId
    /\ \E filename \in Filenames, looping \in BOOLEAN,
          priority \in Priorities :
          ApplyPlay(audio_play_sound(filename, FLOAT_ONE, looping, priority),
                    "play_sound")

\* audio_play_music at full volume.
AudioPlayMusic ==
    /\ next_sound_id <= MaxSoundId
    /\ \E filename \in Filenames, looping \in BOOLEAN :
          ApplyPlay(audio_play_music(filename, FLOAT_ONE, looping),
                    "play_music")

\* The one file the calls at a chosen volume play.
WavFile == Str(<<"a", ".", "w", "a", "v">>)

\* audio_play_sound of a readable .wav file at any volume.
AudioPlaySoundAtVolume ==
    /\ next_sound_id <= MaxSoundId
    /\ \E volume \in CallVolumes :
          ApplyPlay(audio_play_sound(WavFile, volume, FALSE, 1),
                    "play_sound")

\* audio_play_music of a readable .wav file at any volume.
AudioPlayMusicAtVolume ==
    /\ next_sound_id <= MaxSoundId
    /\ \E volume \in CallVolumes :
          ApplyPlay(audio_play_music(WavFile, volume, FALSE),
                    "play_music")

\* A stop that releases the slot and leaves the backend source playing.
MutStopSoundNoBackendStop(srcs, al, cnt, sound_id) ==
    LET hit == {i \in Slots : srcs[i].active /\ srcs[i].sound_id = sound_id}
    IN  IF ~initialized \/ sound_id <= 0 \/ hit = {}
        THEN [sources |-> srcs, al |-> al, count |-> cnt, slot |-> -1]
        ELSE [sources |-> ReleaseSlot(srcs, MinSlot(hit)), al |-> al,
              count |-> cnt - 1, slot |-> MinSlot(hit)]

\* audio_stop_sound(sound_id) on pool srcs, backend al and counter cnt: what
\* it leaves, and the slot it released (-1 for none).
audio_stop_sound(srcs, al, cnt, sound_id) ==
    LET hit == {i \in Slots : srcs[i].active /\ srcs[i].sound_id = sound_id}
    IN  IF ~initialized \/ sound_id <= 0 \/ hit = {}
        THEN [sources |-> srcs, al |-> al, count |-> cnt, slot |-> -1]
        ELSE [sources |-> ReleaseSlot(srcs, MinSlot(hit)),
              al |-> AlStop(al, MinSlot(hit)),
              count |-> cnt - 1, slot |-> MinSlot(hit)]

AudioStopSound ==
    \E sound_id \in SoundIds :
       LET r == audio_stop_sound(sources, al_state, active_sources, sound_id)
       IN  /\ sources' = r.sources
           /\ al_state' = r.al
           /\ active_sources' = r.count
           /\ call' = [NoCall EXCEPT !.op = "stop", !.slot = r.slot]
           /\ UNCHANGED <<initialized, audio_enabled, music_enabled,
                          sfx_enabled, next_sound_id, next_buffer_index,
                          audio_thread_running, mixer, al_gain, al_context,
                          al_listener_gain,
                          threads>>

\* A stop-all that leaves looping voices alone.
MutStopAllSkipsLooping ==
    IF ~initialized
    THEN [sources |-> sources, al |-> al_state, count |-> active_sources]
    ELSE [sources |->
            [i \in Slots |->
               IF sources[i].active /\ ~sources[i].looping
               THEN [sources[i] EXCEPT !.active = FALSE, !.playing = FALSE,
                                       !.sound_id = 0]
               ELSE sources[i]],
          al |-> [i \in Slots |->
                    IF sources[i].active /\ ~sources[i].looping
                       /\ al_state[i] = "playing"
                    THEN "stopped" ELSE al_state[i]],
          count |-> 0]

\* audio_stop_all_sounds on the current state.
audio_stop_all_sounds ==
    IF ~initialized
    THEN [sources |-> sources, al |-> al_state, count |-> active_sources]
    ELSE [sources |->
            [i \in Slots |->
               IF sources[i].active
               THEN [sources[i] EXCEPT !.active = FALSE, !.playing = FALSE,
                                       !.sound_id = 0]
               ELSE sources[i]],
          al |-> [i \in Slots |->
                    IF sources[i].active /\ al_state[i] = "playing"
                    THEN "stopped" ELSE al_state[i]],
          count |-> 0]

\* The number of slots a stop-all finds occupied.
Occupied == Cardinality({i \in Slots : sources[i].active})

AudioStopAllSounds ==
    LET r == audio_stop_all_sounds
    IN  /\ sources' = r.sources
        /\ al_state' = r.al
        /\ active_sources' = r.count
        /\ call' = [NoCall EXCEPT !.op = "stop_all", !.ret = Occupied]
        /\ UNCHANGED <<initialized, audio_enabled, music_enabled,
                       sfx_enabled, next_sound_id, next_buffer_index,
                       audio_thread_running, mixer, al_gain, al_context,
                       al_listener_gain,
                       threads>>

\* audio_enable(enabled): disabling stops all sounds.
AudioEnable ==
    \E enabled \in BOOLEAN :
       LET r == IF enabled
                THEN [sources |-> sources, al |-> al_state,
                      count |-> active_sources]
                ELSE audio_stop_all_sounds
       IN  /\ audio_enabled' = enabled
           /\ sources' = r.sources
           /\ al_state' = r.al
           /\ active_sources' = r.count
           /\ call' = [NoCall EXCEPT !.op = "enable",
                                     !.ret = IF enabled THEN 0 ELSE Occupied]
           /\ UNCHANGED <<initialized, music_enabled, sfx_enabled,
                          next_sound_id, next_buffer_index,
                          audio_thread_running, mixer, al_gain, al_context,
                          al_listener_gain,
                          threads>>

AudioEnableMusic ==
    \E enabled \in BOOLEAN :
       /\ music_enabled' = enabled
       /\ call' = [NoCall EXCEPT !.op = "enable_music"]
       /\ UNCHANGED <<initialized, audio_enabled, sfx_enabled, sources,
                      al_state, active_sources, next_sound_id,
                      next_buffer_index, audio_thread_running, mixer,
                      al_gain, al_context, al_listener_gain, threads>>

AudioEnableSfx ==
    \E enabled \in BOOLEAN :
       /\ sfx_enabled' = enabled
       /\ call' = [NoCall EXCEPT !.op = "enable_sfx"]
       /\ UNCHANGED <<initialized, audio_enabled, music_enabled, sources,
                      al_state, active_sources, next_sound_id,
                      next_buffer_index, audio_thread_running, mixer,
                      al_gain, al_context, al_listener_gain, threads>>

\* An audio_set_master_volume that also rescales the gain of every active
\* voice by the new setting.
MutSetMasterRetunes(volume) ==
    IF ~initialized
    THEN [master_volume |-> master_volume, listener |-> al_listener_gain,
          gain |-> al_gain]
    ELSE [master_volume |-> ClampVolume(volume),
          listener |-> alListenerf_GAIN(al_listener_gain, al_context,
                                        ClampVolume(volume)),
          gain |-> [i \in Slots |->
                      IF sources[i].active
                      THEN FMul(al_gain[i], ClampVolume(volume))
                      ELSE al_gain[i]]]

\* audio_set_master_volume(volume): nothing when not initialized; else the
\* clamped setting, which is also made the listener's gain. The gains of
\* the backend sources are not touched.
audio_set_master_volume(volume) ==
    IF ~initialized
    THEN [master_volume |-> master_volume, listener |-> al_listener_gain,
          gain |-> al_gain]
    ELSE [master_volume |-> ClampVolume(volume),
          listener |-> alListenerf_GAIN(al_listener_gain, al_context,
                                        ClampVolume(volume)),
          gain |-> al_gain]

\* A call of audio_set_master_volume.
AudioSetMasterVolume ==
    \E volume \in VolumeInputs :
       /\ master_volume' = audio_set_master_volume(volume).master_volume
       /\ al_listener_gain' = audio_set_master_volume(volume).listener
       /\ al_gain' = audio_set_master_volume(volume).gain
       /\ call' = [NoCall EXCEPT !.op = "set_master_volume"]
       /\ UNCHANGED <<initialized, audio_enabled, music_enabled, sfx_enabled,
                      sources, al_state, active_sources, next_sound_id,
                      next_buffer_index, audio_thread_running, music_volume,
                      sfx_volume, al_context, threads>>

\* audio_set_music_volume(volume): nothing when not initialized.
AudioSetMusicVolume ==
    \E volume \in VolumeInputs :
       /\ music_volume' = IF initialized THEN ClampVolume(volume)
                          ELSE music_volume
       /\ call' = [NoCall EXCEPT !.op = "set_music_volume"]
       /\ UNCHANGED <<initialized, audio_enabled, music_enabled, sfx_enabled,
                      sources, al_state, active_sources, next_sound_id,
                      next_buffer_index, audio_thread_running, master_volume,
                      sfx_volume, al_gain, al_context, al_listener_gain,
                      threads>>

\* audio_set_sfx_volume(volume): nothing when not initialized.
AudioSetSfxVolume ==
    \E volume \in VolumeInputs :
       /\ sfx_volume' = IF initialized THEN ClampVolume(volume)
                        ELSE sfx_volume
       /\ call' = [NoCall EXCEPT !.op = "set_sfx_volume"]
       /\ UNCHANGED <<initialized, audio_enabled, music_enabled, sfx_enabled,
                      sources, al_state, active_sources, next_sound_id,
                      next_buffer_index, audio_thread_running, master_volume,
                      music_volume, al_gain, al_context, al_listener_gain,
                      threads>>

\* One pass of the loop of audio_thread_func.
ReaperTick ==
    /\ audio_thread_running
    /\ initialized
    /\ LET r == cleanup_completed_sources(sources, al_state, active_sources)
       IN  /\ ActiveCount(r.sources) - r.count <= MaxDrift
           /\ sources' = r.sources
           /\ active_sources' = r.count
           /\ call' = [NoCall EXCEPT !.op = "reaper", !.cbs = r.cbs]
    /\ UNCHANGED <<initialized, audio_enabled, music_enabled, sfx_enabled,
                   al_state, next_sound_id, next_buffer_index,
                   audio_thread_running, mixer, al_gain, al_context,
                   al_listener_gain,
                   threads>>

\* OnPlaySoundComplete(soundId) from the Java side: mark_audio_complete
\* forwards the id to audio_mark_complete.
OnPlaySoundComplete ==
    \E sound_id \in SoundIds :
       LET r == audio_mark_complete(sources, active_sources, sound_id)
       IN  /\ ActiveCount(r.sources) - r.count <= MaxDrift
           /\ sources' = r.sources
           /\ active_sources' = r.count
           /\ call' = [NoCall EXCEPT !.op = "mark_complete"]
           /\ UNCHANGED <<initialized, audio_enabled, music_enabled,
                          sfx_enabled, al_state, next_sound_id,
                          next_buffer_index, audio_thread_running, mixer,
                          al_gain, al_context, al_listener_gain, threads>>

\* audio_cleanup: returns at once when not initialized; otherwise joins the
\* thread, stops all sounds, deletes the backend sources and resets
\* initialized.
AudioCleanup ==
    /\ IF ~initialized
       THEN UNCHANGED <<initialized, audio_thread_running, sources, al_state,
                        active_sources, al_gain, al_context,
                        al_listener_gain, reaper>>
       ELSE /\ audio_thread_running' = FALSE
            /\ reaper' = NoThread
            /\ sources' = audio_stop_all_sounds.sources
            /\ al_state' = [i \in Slots |-> "initial"]
            /\ al_gain' = [i \in Slots |-> FLOAT_ONE]
            /\ al_context' = FALSE
            /\ al_listener_gain' = FLOAT_ONE
            /\ active_sources' = 0
            /\ initialized' = FALSE
    /\ call' = [NoCall EXCEPT !.op = "cleanup"]
    /\ UNCHANGED <<audio_enabled, music_enabled, sfx_enabled, next_sound_id,
                   next_buffer_index, mixer, caller>>

\* The backend: a playing source reaches the end of its buffer.
BackendFinish ==
    \E i \in Slots :
       /\ al_state[i] = "playing"
       /\ al_state' = [al_state EXCEPT ![i] = "stopped"]
       /\ call' = [NoCall EXCEPT !.op = "al_finish"]
       /\ UNCHANGED <<initialized, audio_enabled, music_enabled, sfx_enabled,
                      sources, active_sources, next_sound_id,
                      next_buffer_index, audio_thread_running, mixer,
                      al_gain, al_context, al_listener_gain, threads>>

(* ------------------- the two threads, step by step --------------------- *)

\* The calls of the game thread and the loop of the audio thread, each cut
\* at the points where the other thread can run in between: the code takes
\* no lock.

\* The files the game thread plays here: one that loads and one that fails.
ThreadFilenames == {WavFile, Str(<<"c", ".", "o", "g", "g">>)}

\* The state all steps of the threads leave alone.
settings ==
    <<audio_enabled, music_enabled, sfx_enabled, mixer>>

\* audio_thread_func, the test of the while loop and of initialized: the
\* thread ends when audio_thread_running is 0, starts a pass over the pool
\* when initialized, and sleeps otherwise.
ReaperLoop ==
    /\ reaper.pc = "loop"
    /\ reaper' = IF ~audio_thread_running THEN [pc |-> "exited", i |-> 0]
                 ELSE IF initialized THEN [pc |-> "scan", i |-> 0]
                 ELSE reaper
    /\ UNCHANGED <<initialized, sources, al_state, active_sources,
                   next_sound_id, next_buffer_index, audio_thread_running,
                   al_gain, al_context, al_listener_gain, caller, call,
                   settings>>

\* cleanup_completed_sources, the tests on slot i; after the last slot
\* update_audio_streams and the sleep lead back to the loop test.
ReaperTest ==
    /\ reaper.pc = "scan"
    /\ reaper' =
          IF reaper.i >= MAX_AUDIO_SOURCES THEN ThreadAtLoop
          ELSE IF Completed(sources[reaper.i], al_state[reaper.i])
               THEN [reaper EXCEPT !.pc = "release"]
               ELSE [reaper EXCEPT !.i = reaper.i + 1]
    /\ UNCHANGED <<initialized, sources, al_state, active_sources,
                   next_sound_id, next_buffer_index, audio_thread_running,
                   al_gain, al_context, al_listener_gain, caller, call,
                   settings>>

\* cleanup_completed_sources: active = 0; playing = 0 on slot i.
ReaperRelease ==
    /\ reaper.pc = "release"
    /\ sources' = [sources EXCEPT ![reaper.i].active = FALSE,
                                  ![reaper.i].playing = FALSE]
    /\ reaper' = [reaper EXCEPT !.pc = "callback"]
    /\ UNCHANGED <<initialized, al_state, active_sources, next_sound_id,
                   next_buffer_index, audio_thread_running, al_gain,
                   al_context, al_listener_gain, caller, call, settings>>

\* cleanup_completed_sources: audio_mark_complete(sources[i].sound_id).
ReaperCallback ==
    /\ reaper.pc = "callback"
    /\ LET id == sources[reaper.i].sound_id
           mc == audio_mark_complete(sources, active_sources, id)
       IN  /\ sources' = mc.sources
           /\ active_sources' = mc.count
           /\ call' = [NoCall EXCEPT !.op = "callback", !.ret = id,
                                     !.slot = reaper.i]
    /\ reaper' = [reaper EXCEPT !.pc = "clear"]
    /\ UNCHANGED <<initialized, al_state, next_sound_id, next_buffer_index,
                   audio_thread_running, al_gain, al_context,
                   al_listener_gain, caller,
                   settings>>

\* cleanup_completed_sources: sound_id = 0; active_sources--, and on to the
\* next slot.
ReaperClear ==
    /\ reaper.pc = "clear"
    /\ sources' = [sources EXCEPT ![reaper.i].sound_id = 0]
    /\ active_sources' = active_sources - 1
    /\ reaper' = [pc |-> "scan", i |-> reaper.i + 1]
    /\ UNCHANGED <<initialized, al_state, next_sound_id, next_buffer_index,
                   audio_thread_running, al_gain, al_context,
                   al_listener_gain, caller, call,
                   settings>>

\* audio_play_sound up to the loading of the file: the entry tests,
\* get_available_source, get_available_buffer, detect_audio_format and the
\* loader. A call that fails returns here.
PlayBegin ==
    /\ caller.pc = "idle"
    /\ next_sound_id <= MaxSoundId
    /\ \E filename \in ThreadFilenames, looping \in BOOLEAN :
          LET r == audio_play_sound(filename, FLOAT_ONE, looping, 1)
              g == get_available_source(sources, al_state, active_sources)
          IN  IF r.ret < 0
              THEN /\ sources' = r.sources
                   /\ al_state' = r.al
                   /\ active_sources' = r.count
                   /\ next_buffer_index' = r.nbi
                   /\ caller' = caller
                   /\ call' = [NoCall EXCEPT !.op = "play_sound",
                                             !.ret = r.ret, !.slot = r.slot,
                                             !.rule = r.rule]
              ELSE /\ sources' = g.sources
                   /\ al_state' = g.al
                   /\ active_sources' = g.count
                   /\ next_buffer_index' = r.nbi
                   /\ caller' = [pc |-> "play_setup", slot |-> g.idx,
                                 buffer |-> r.sources[g.idx].buffer,
                                 looping |-> looping, priority |-> 1]
                   /\ call' = call
    /\ UNCHANGED <<initialized, next_sound_id, audio_thread_running,
                   al_gain, al_context, al_listener_gain, reaper, settings>>

\* audio_play_sound, the set-up of the source: its fields, the id from
\* next_sound_id++, and the gain.
PlaySetup ==
    /\ caller.pc = "play_setup"
    /\ sources' = [sources EXCEPT ![caller.slot] =
                      [active |-> TRUE, playing |-> TRUE,
                       looping |-> caller.looping,
                       sound_id |-> next_sound_id,
                       priority |-> caller.priority,
                       buffer |-> caller.buffer]]
    /\ next_sound_id' = NextSoundId(next_sound_id)
    /\ al_gain' = alSourcef_GAIN(al_gain, caller.slot,
                                 FinalVolume(FLOAT_ONE))
    /\ caller' = [caller EXCEPT !.pc = "play_start"]
    /\ UNCHANGED <<initialized, al_state, active_sources, next_buffer_index,
                   audio_thread_running, al_context, al_listener_gain,
                   reaper, call, settings>>

\* audio_play_sound: alSourcePlay.
PlayStart ==
    /\ caller.pc = "play_start"
    /\ al_state' = alSourcePlay(al_state, caller.slot)
    /\ caller' = [caller EXCEPT !.pc = "play_return"]
    /\ UNCHANGED <<initialized, sources, active_sources, next_sound_id,
                   next_buffer_index, audio_thread_running, al_gain,
                   al_context, al_listener_gain, reaper, call, settings>>

\* audio_play_sound: active_sources++; return source->sound_id.
PlayReturn ==
    /\ caller.pc = "play_return"
    /\ active_sources' = active_sources + 1
    /\ call' = [NoCall EXCEPT !.op = "play_sound",
                              !.ret = sources[caller.slot].sound_id,
                              !.slot = caller.slot]
    /\ caller' = Idle
    /\ UNCHANGED <<initialized, sources, al_state, next_sound_id,
                   next_buffer_index, audio_thread_running, al_gain,
                   al_context, al_listener_gain, reaper, settings>>

\* audio_stop_sound, the search for the active slot that holds sound_id.
StopBegin ==
    /\ caller.pc = "idle"
    /\ \E sound_id \in SoundIds :
          LET hit == {i \in Slots :
                        sources[i].active /\ sources[i].sound_id = sound_id}
          IN  IF ~initialized \/ sound_id <= 0 \/ hit = {}
              THEN /\ caller' = caller
                   /\ call' = [NoCall EXCEPT !.op = "stop"]
              ELSE /\ caller' = [Idle EXCEPT !.pc = "stop_release",
                                             !.slot = MinSlot(hit)]
                   /\ call' = call
    /\ UNCHANGED <<initialized, sources, al_state, active_sources,
                   next_sound_id, next_buffer_index, audio_thread_running,
                   al_gain, al_context, al_listener_gain, reaper, settings>>

\* audio_stop_sound: alSourceStop and the release of the slot found.
StopRelease ==
    /\ caller.pc = "stop_release"
    /\ al_state' = AlStop(al_state, caller.slot)
    /\ sources' = ReleaseSlot(sources, caller.slot)
    /\ active_sources' = active_sources - 1
    /\ call' = [NoCall EXCEPT !.op = "stop", !.slot = caller.slot]
    /\ caller' = Idle
    /\ UNCHANGED <<initialized, next_sound_id, next_buffer_index,
                   audio_thread_running, al_gain, al_context,
                   al_listener_gain, reaper,
                   settings>>

\* audio_cleanup up to the wait: returns at once when not initialized,
\* otherwise clears audio_thread_running.
CleanupBegin ==
    /\ caller.pc = "idle"
    /\ IF ~initialized
       THEN /\ call' = [NoCall EXCEPT !.op = "cleanup"]
            /\ UNCHANGED <<audio_thread_running, caller>>
       ELSE /\ audio_thread_running' = FALSE
            /\ caller' = [Idle EXCEPT !.pc = "cleanup_join"]
            /\ call' = call
    /\ UNCHANGED <<initialized, sources, al_state, active_sources,
                   next_sound_id, next_buffer_index, al_gain, al_context,
                   al_listener_gain,
                   reaper, settings>>

\* A wait that returns while the thread still runs.
MutJoinNoWait == TRUE

\* sceKernelWaitThreadEnd returns once the audio thread has ended.
JoinReturns == reaper.pc = "exited"

\* audio_cleanup: sceKernelWaitThreadEnd and sceKernelDeleteThread, which
\* deletes a thread that has ended.
CleanupJoin ==
    /\ caller.pc = "cleanup_join"
    /\ JoinReturns
    /\ reaper' = IF reaper.pc = "exited" THEN NoThread ELSE reaper
    /\ caller' = [caller EXCEPT !.pc = "cleanup_stop"]
    /\ UNCHANGED <<initialized, sources, al_state, active_sources,
                   next_sound_id, next_buffer_index, audio_thread_running,
                   al_gain, al_context, al_listener_gain, call, settings>>

\* audio_cleanup after the wait: audio_stop_all_sounds, the deletion of the
\* backend sources, buffers and context, and initialized = 0.
CleanupFinish ==
    /\ caller.pc = "cleanup_stop"
    /\ sources' = audio_stop_all_sounds.sources
    /\ active_sources' = audio_stop_all_sounds.count
    /\ al_state' = [i \in Slots |-> "initial"]
    /\ al_gain' = [i \in Slots |-> FLOAT_ONE]
    /\ al_context' = FALSE
    /\ al_listener_gain' = FLOAT_ONE
    /\ initialized' = FALSE
    /\ caller' = Idle
    /\ call' = [NoCall EXCEPT !.op = "cleanup"]
    /\ UNCHANGED <<next_sound_id, next_buffer_index, audio_thread_running,
                   reaper, settings>>

(* --------------------------- specifications --------------------------- *)

\* The engine with the category switches left as audio_init sets them:
\* music_enabled is read by audio_play_music alone, and sfx_enabled by no
\* code, so switching them adds refused calls and no new pool state.
Next ==
    \/ AudioInit
    \/ AudioPlaySound
    \/ AudioPlayMusic
    \/ AudioStopSound
    \/ AudioStopAllSounds
    \/ AudioEnable
    \/ ReaperTick
    \/ OnPlaySoundComplete
    \/ AudioCleanup
    \/ BackendFinish

Spec == Init /\ [][Next]_vars

\* One run of the engine (audio_init once) with the category switches.
NextCategory ==
    \/ AudioInit
    \/ AudioPlaySound
    \/ AudioPlayMusic
    \/ AudioStopSound
    \/ AudioEnable
    \/ AudioEnableMusic
    \/ AudioEnableSfx
    \/ ReaperTick
    \/ BackendFinish

SpecCategory == Init /\ [][NextCategory]_vars

\* The engine with the volume setters and plays at any call volume.
NextVolume ==
    \/ AudioInit
    \/ AudioSetMasterVolume
    \/ AudioSetMusicVolume
    \/ AudioSetSfxVolume
    \/ AudioPlaySoundAtVolume
    \/ AudioPlayMusicAtVolume
    \/ AudioCleanup

SpecVolume == Init /\ [][NextVolume]_vars

\* The steps of the audio thread.
ReaperStep ==
    \/ ReaperLoop
    \/ ReaperTest
    \/ ReaperRelease
    \/ ReaperCallback
    \/ ReaperClear

\* The steps of the game thread.
CallerStep ==
    \/ AudioInit
    \/ PlayBegin
    \/ PlaySetup
    \/ PlayStart
    \/ PlayReturn
    \/ StopBegin
    \/ StopRelease
    \/ CleanupBegin
    \/ CleanupJoin
    \/ CleanupFinish

\* The game thread and the audio thread running side by side.
NextThreads ==
    \/ ReaperStep
    \/ CallerStep
    \/ BackendFinish

\* The kernel schedules the audio thread: sceKernelDelayThread returns, and
\* a thread that can take a step takes it.
SpecThreads == Init /\ [][NextThreads]_vars /\ WF_vars(ReaperStep)

(* ------------------------------- claims -------------------------------- *)

\* The slots holding a voice.
ActiveSlots == {i \in Slots : sources[i].active}

\* C1: the number of active voices never exceeds the pool size, and whenever
\* get_available_source returns a slot, that slot's previous occupant has
\* been released (active = 0, sound_id = 0), so the new playback id never
\* shares the slot with a live one.
C1_CapacityAndExclusivity ==
    /\ ActiveCount(sources) <= MAX_AUDIO_SOURCES
    /\ ~PlayRefused =>
          LET g == get_available_source(sources, al_state, active_sources)
          IN  g.idx >= 0 =>
                /\ ~g.sources[g.idx].active
                /\ g.sources[g.idx].sound_id = 0
                /\ ActiveCount(g.sources) < MAX_AUDIO_SOURCES

\* A voice was admitted into a full pool by stealing a slot.
C1_Witness ==
    /\ call.op = "play_sound"
    /\ call.rule = 3
    /\ call.ret > 0
    /\ sources[call.slot].sound_id = call.ret
    /\ ActiveCount(sources) = MAX_AUDIO_SOURCES

\* C2: no two active voices hold the same playback id, and the id the next
\* admission assigns is held by no active voice.
C2_IdUniqueness ==
    /\ \A i, j \in ActiveSlots :
          i # j => sources[i].sound_id # sources[j].sound_id
    /\ \A i \in ActiveSlots :
          /\ sources[i].sound_id # next_sound_id
          /\ sources[i].sound_id > 0

\* A voice was admitted into the slot of a finished one while another voice
\* stays active, after earlier admissions have used up lower ids.
C2_Witness ==
    /\ call.op \in {"play_sound", "play_music"}
    /\ call.rule = 2
    /\ call.ret = MaxSoundId
    /\ ActiveCount(sources) >= 2

\* The requests audio_play_sound and audio_play_music can be given.
SoundRequests == Filenames \X BOOLEAN \X Priorities

MusicRequests == Filenames \X BOOLEAN

\* The outcome of audio_play_sound on request q.
SoundOutcome(q) == audio_play_sound(q[1], FLOAT_ONE, q[2], q[3])

\* The outcome of audio_play_music on request q.
MusicOutcome(q) == audio_play_music(q[1], FLOAT_ONE, q[2])

\* The occupied slot of least priority, the lowest index among equals.
LowestPrioritySlot ==
    CHOOSE i \in ActiveSlots :
       \A j \in ActiveSlots :
          \/ sources[i].priority < sources[j].priority
          \/ sources[i].priority = sources[j].priority /\ i <= j

\* No slot is free and no occupied slot's backend source has stopped.
PoolBusy ==
    /\ ActiveSlots = Slots
    /\ \A i \in Slots : al_state[i] # "stopped"

\* C3: when no slot is free and no occupied slot's backend reports stopped,
\* admission evicts exactly the occupied slot of minimum priority, the
\* lowest index among equals, and releases no other slot.
C3_EvictionChoice ==
    (~PlayRefused /\ PoolBusy) =>
       LET g == get_available_source(sources, al_state, active_sources)
           m == LowestPrioritySlot
       IN  /\ g.idx = m
           /\ ~g.sources[m].active
           /\ g.sources[m].sound_id = 0
           /\ g.al[m] # "playing"
           /\ \A j \in Slots \ {m} :
                 g.sources[j] = sources[j] /\ g.al[j] = al_state[j]

\* C4: on an initialized, enabled engine get_available_source never returns
\* -1, whatever the priorities of the occupants.
C4_AdmissionAlwaysYields ==
    ~PlayRefused =>
       get_available_source(sources, al_state, active_sources).idx >= 0

\* C5: whenever a slot is free, admission returns the lowest-indexed free
\* slot and changes no occupied voice: get_available_source leaves the pool,
\* the backend and the counter as they are, and a play leaves every slot but
\* the one it was given untouched.
C5_FreeSlotFirst ==
    (~PlayRefused /\ ActiveSlots # Slots) =>
       LET first == MinSlot(Slots \ ActiveSlots)
           g == get_available_source(sources, al_state, active_sources)
           Lands(r) ==
              r.slot >= 0 =>
                 /\ r.slot = first
                 /\ \A j \in Slots \ {first} :
                       r.sources[j] = sources[j] /\ r.al[j] = al_state[j]
       IN  /\ g.idx = first
           /\ g.sources = sources
           /\ g.al = al_state
           /\ g.count = active_sources
           /\ \A q \in SoundRequests : Lands(SoundOutcome(q))
           /\ \A q \in MusicRequests : Lands(MusicOutcome(q))

\* Both slots were occupied, the voice in slot 0 was stopped, and the next
\* play landed in slot 0 by the free-slot rule while the voice in slot 1
\* keeps its id and plays on.
C5_Witness ==
    /\ call.op = "play_sound"
    /\ call.rule = 1
    /\ call.slot = 0
    /\ call.ret = 3
    /\ sources[0].sound_id = 3
    /\ sources[1].active
    /\ sources[1].sound_id = 2
    /\ al_state[1] = "playing"

\* The slots a reaper tick has to release: active, stopped, not looping.
Finished ==
    {i \in Slots : /\ sources[i].active
                    /\ al_state[i] = "stopped"
                    /\ ~sources[i].looping}

\* How many times id occurs in the sequence s.
Occurrences(s, id) == Cardinality({k \in 1 .. Len(s) : s[k] = id})

\* C6: of two reaper ticks in succession, the first releases every finished
\* non-looping voice and passes its id to the completion callback once; the
\* second changes nothing and fires no callback.
C6_ReaperIdempotent ==
    (initialized /\ audio_thread_running) =>
       LET r1 == cleanup_completed_sources(sources, al_state, active_sources)
           r2 == cleanup_completed_sources(r1.sources, al_state, r1.count)
       IN  /\ \A i \in Finished :
                 /\ ~r1.sources[i].active
                 /\ r1.sources[i].sound_id = 0
                 /\ Occurrences(r1.cbs, sources[i].sound_id) = 1
           /\ Len(r1.cbs) = Cardinality(Finished)
           /\ r2.sources = r1.sources
           /\ r2.count = r1.count
           /\ r2.cbs = <<>>

\* A reaper tick has released one finished voice and fired its callback,
\* and the slot stays with a stopped backend source for the next tick.
C6_Witness ==
    /\ call.op = "reaper"
    /\ Len(call.cbs) = 1
    /\ call.cbs[1] > 0
    /\ \E i \in Slots : ~sources[i].active /\ al_state[i] = "stopped"

\* C7: a reaper tick leaves every active looping voice as it is, also when
\* the backend reports its source stopped, and fires no callback for it.
C7_LoopExemption ==
    (initialized /\ audio_thread_running) =>
       LET r1 == cleanup_completed_sources(sources, al_state, active_sources)
       IN  \A i \in ActiveSlots :
              sources[i].looping =>
                 /\ r1.sources[i] = sources[i]
                 /\ Occurrences(r1.cbs, sources[i].sound_id) = 0

\* A reaper tick has run over a looping voice whose backend source is
\* stopped, and the voice is still active.
C7_Witness ==
    /\ call.op = "reaper"
    /\ \E i \in ActiveSlots :
          sources[i].looping /\ al_state[i] = "stopped"

\* A play outcome that returns -1 and leaves the pool, the backend, the
\* active count, the next id and the buffer-ring index as they are.
Untouched(r) ==
    /\ r.ret = -1
    /\ r.sources = sources
    /\ r.al = al_state
    /\ r.count = active_sources
    /\ r.nsid = next_sound_id
    /\ r.nbi = next_buffer_index
    /\ r.gain = al_gain

\* C8: with audio_enabled false, audio_play_sound and audio_play_music return
\* -1 and change nothing.
C8_DisabledNoOp ==
    ~audio_enabled =>
       /\ \A q \in SoundRequests : Untouched(SoundOutcome(q))
       /\ \A q \in MusicRequests : Untouched(MusicOutcome(q))

\* A play was refused on an initialized engine with audio disabled, after
\* playback ids had been handed out.
C8_Witness ==
    /\ call.op \in {"play_sound", "play_music"}
    /\ call.ret = -1
    /\ initialized
    /\ ~audio_enabled
    /\ next_sound_id > 1

\* C9: with audio enabled, audio_play_music is refused when music_enabled is
\* false and audio_play_sound is refused when sfx_enabled is false.
C9_CategoryDisable ==
    (initialized /\ audio_enabled) =>
       /\ ~music_enabled => \A q \in MusicRequests : Untouched(MusicOutcome(q))
       /\ ~sfx_enabled => \A q \in SoundRequests : Untouched(SoundOutcome(q))

\* C10: audio_stop_sound(id) releases the one active voice that holds id
\* (backend stopped, slot free, id 0) and leaves every other slot as it is;
\* when no active voice holds id it changes nothing, and so does a second
\* audio_stop_sound(id).
C10_Stop ==
    \A id \in SoundIds :
       LET r == audio_stop_sound(sources, al_state, active_sources, id)
           r2 == audio_stop_sound(r.sources, r.al, r.count, id)
           holders == {i \in ActiveSlots : sources[i].sound_id = id}
       IN  /\ holders # {} =>
                 \E i \in holders :
                    /\ holders = {i}
                    /\ id > 0
                    /\ ~r.sources[i].active
                    /\ r.sources[i].sound_id = 0
                    /\ r.al[i] # "playing"
                    /\ \A j \in Slots \ {i} :
                          r.sources[j] = sources[j] /\ r.al[j] = al_state[j]
           /\ holders = {} =>
                 /\ r.sources = sources
                 /\ r.al = al_state
                 /\ r.count = active_sources
           /\ r2.sources = r.sources
           /\ r2.al = r.al
           /\ r2.count = r.count

\* audio_stop_sound has released a playing voice while another voice plays on.
C10_Witness ==
    /\ call.op = "stop"
    /\ call.slot >= 0
    /\ ~sources[call.slot].active
    /\ al_state[call.slot] = "stopped"
    /\ \E j \in ActiveSlots : al_state[j] = "playing"

\* What a stop-all leaves: every slot free with id 0, no backend source of a
\* slot that was occupied still playing, and the counter at 0.
StopAllPost(r) ==
    /\ \A i \in Slots :
          /\ ~r.sources[i].active
          /\ r.sources[i].sound_id = 0
          /\ sources[i].active => r.al[i] # "playing"
    /\ r.count = 0

\* Every slot is free with id 0 and the counter is 0.
AllFree ==
    /\ \A i \in Slots : ~sources[i].active /\ sources[i].sound_id = 0
    /\ active_sources = 0

\* C11: on an initialized engine audio_stop_all_sounds leaves every slot
\* free with id 0, has stopped the backend source of every slot that was
\* occupied, and leaves the active count 0, whatever the looping flags and
\* priorities; the same holds after audio_enable(0) and audio_cleanup.
C11_StopAllPostcondition ==
    /\ initialized => StopAllPost(audio_stop_all_sounds)
    /\ (initialized /\ call.op = "stop_all") => AllFree
    /\ (initialized /\ call.op = "enable" /\ ~audio_enabled) => AllFree
    /\ call.op = "cleanup" =>
          \A i \in Slots :
             /\ ~sources[i].active
             /\ sources[i].sound_id = 0
             /\ al_state[i] # "playing"

\* audio_stop_all_sounds has released a full pool that held a looping voice,
\* a voice of the highest priority and a playing backend source.
C11_Witness ==
    /\ call.op = "stop_all"
    /\ call.ret = MAX_AUDIO_SOURCES
    /\ initialized
    /\ \E i \in Slots : sources[i].looping /\ al_state[i] = "stopped"
    /\ \E i \in Slots : sources[i].priority = STEAL_SENTINEL
    /\ \A i \in Slots : ~sources[i].active

\* min and max of two numbers.
Min2(a, b) == IF a < b THEN a ELSE b

Max2(a, b) == IF a > b THEN a ELSE b

\* A stored volume within [0, 1].
InUnit(v) == v \in 0 .. FLOAT_ONE

\* C12: the volume setters store min(1, max(0, v)) for every number v (0.0
\* for -0.5 and 1.0 for 2.0), and master_volume, music_volume and sfx_volume
\* lie within [0, 1] in every reachable state.
C12_VolumeClamp ==
    /\ \A v \in VolumeInputs \ {NaN} :
          ClampVolume(v) = Min2(FLOAT_ONE, Max2(0, v.v))
    /\ ClampVolume(Num(-5000)) = 0
    /\ ClampVolume(Num(20000)) = FLOAT_ONE
    /\ \A v \in VolumeInputs : InUnit(ClampVolume(v))
    /\ InUnit(master_volume)
    /\ InUnit(music_volume)
    /\ InUnit(sfx_volume)

\* audio_set_master_volume(-0.5) has stored 0.0 while the music volume holds
\* a clamped 1.0 and the sfx volume 0.5.
C12_Witness ==
    /\ call.op = "set_master_volume"
    /\ initialized
    /\ master_volume = 0
    /\ music_volume = FLOAT_ONE
    /\ sfx_volume = 5000

\* clamp(v, 0, 1) of a call volume.
Clamp01(v) == Min2(FLOAT_ONE, Max2(0, v))

\* C13: the gain a successful play sets on its backend source is
\* clamp(volume, 0, 1) * master_volume * sfx_volume for audio_play_sound and
\* clamp(volume, 0, 1) * master_volume * music_volume for audio_play_music.
C13_EffectiveGain ==
    \A v \in CallVolumes :
       LET s == audio_play_sound(WavFile, v, FALSE, 1)
           u == audio_play_music(WavFile, v, FALSE)
       IN  /\ s.ret > 0 =>
                 s.gain[s.slot] =
                    FMul(FMul(Clamp01(v), master_volume), sfx_volume)
           /\ u.ret > 0 =>
                 u.gain[u.slot] =
                    FMul(FMul(Clamp01(v), master_volume), music_volume)

\* C14: when the device or the context cannot be opened audio_init returns
\* 0, the engine stays uninitialized, the audio thread is not started and
\* plays are refused.
C14_InitFailure ==
    (call.op = "init" /\ ~al_context) =>
       /\ call.ret = 0
       /\ ~initialized
       /\ ~audio_thread_running
       /\ reaper = NoThread
       /\ PlayRefused

FailingRequests ==
    {q \in SoundRequests :
        /\ ~q[1].null
        /\ Len(q[1].chars) > 0
        /\ \/ detect_audio_format(q[1]) # "WAV"
           \/ ~load_wav_file(q[1])}

\* The program's state apart from the record of the last call.
program ==
    <<initialized, audio_enabled, music_enabled, sfx_enabled, sources,
      al_state, active_sources, next_sound_id, next_buffer_index,
      audio_thread_running, mixer, al_gain, al_context, al_listener_gain,
      threads>>

\* C16: audio_cleanup stops the audio thread and waits for its end before
\* it stops the voices, so the thread takes no step while the voices are
\* stopped nor afterwards; it then leaves every slot free and the engine
\* uninitialized; on an uninitialized engine it changes nothing; and once
\* audio_cleanup waits, the audio thread ends.
C16_Shutdown ==
    /\ [](caller.pc = "cleanup_stop" => reaper = NoThread)
    /\ [](~audio_thread_running /\ caller.pc = "idle" => reaper = NoThread)
    /\ [][(caller.pc = "cleanup_stop" /\ caller'.pc = "idle") =>
             /\ ~initialized'
             /\ ~audio_thread_running'
             /\ reaper' = NoThread
             /\ active_sources' = 0
             /\ \A i \in Slots :
                   /\ ~sources'[i].active
                   /\ sources'[i].sound_id = 0
                   /\ al_state'[i] # "playing"]_vars
    /\ [][(~initialized /\ call'.op = "cleanup" /\ call' # call) =>
             UNCHANGED program]_vars
    /\ (caller.pc = "cleanup_join") ~> (reaper.pc = "exited")

\* audio_cleanup has waited for the audio thread, which was in the middle
\* of a pass when audio_thread_running was cleared, and is about to stop a
\* full pool.
C16_Witness ==
    /\ caller.pc = "cleanup_stop"
    /\ reaper = NoThread
    /\ ~audio_thread_running
    /\ ActiveCount(sources) = MAX_AUDIO_SOURCES

\* The game thread is between two steps of a play or a stop on the pool.
CallerInPool ==
    caller.pc \in {"play_setup", "play_start", "play_return", "stop_release"}

\* The audio thread is between two steps of a pass over the pool.
ReaperInPool == reaper.pc \in {"scan", "release", "callback", "clear"}

\* C17: the audio thread is never inside a pass over the pool while the game
\* thread is inside a play or a stop.
C17_MutualExclusion == ~(CallerInPool /\ ReaperInPool)

\* C19: the reaper passes to audio_mark_complete the id the finished slot
\* carries, a nonzero id, and clears the slot's id only afterwards: every
\* id a tick passes is the id of a finished voice, and none is 0.
C19_CallbackOrdering ==
    (initialized /\ audio_thread_running) =>
       LET r1 == cleanup_completed_sources(sources, al_state, active_sources)
       IN  /\ \A k \in 1 .. Len(r1.cbs) :
                 /\ r1.cbs[k] # 0
                 /\ \E i \in Finished : sources[i].sound_id = r1.cbs[k]
           /\ \A i \in Finished :
                 \E k \in 1 .. Len(r1.cbs) : r1.cbs[k] = sources[i].sound_id

\* A reaper tick has passed the id of the last voice admitted to the
\* callback and cleared its slot, while another voice plays on.
C19_Witness ==
    /\ call.op = "reaper"
    /\ call.cbs = <<MaxSoundId>>
    /\ \E i \in Slots :
          ~sources[i].active /\ sources[i].sound_id = 0
             /\ al_state[i] = "stopped"
    /\ \E j \in ActiveSlots : al_state[j] = "playing"

\* C18: a play that fails at format detection or at loading returns -1,
\* consumes no playback id and leaves every slot, every backend source and
\* the active count as they were, also when the pool is full.
C18_FailedPlayLeavesPool ==
    ~PlayRefused =>
       \A q \in FailingRequests :
          LET r == SoundOutcome(q)
          IN  /\ r.ret = -1
              /\ r.nsid = next_sound_id
              /\ r.sources = sources
              /\ r.al = al_state
              /\ r.count = active_sources

\* Slot i holds a non-looping voice whose backend playback has finished.
FinishedVoice(i) ==
    /\ sources[i].active
    /\ al_state[i] = "stopped"
    /\ ~sources[i].looping

\* C20: a finished non-looping voice leaves its slot only through the
\* reaper, which passes its id to the completion callback, through
\* audio_mark_complete called with its id, or through an explicit stop
\* (audio_stop_sound, audio_stop_all_sounds, audio_enable(0), audio_cleanup)
\* or a priority eviction; no admission releases it without the callback.
C20_CompletionReported ==
    [][\A i \in Slots :
          (FinishedVoice(i) /\ sources'[i].sound_id # sources[i].sound_id) =>
             \/ /\ call'.op = "reaper"
                /\ Occurrences(call'.cbs, sources[i].sound_id) = 1
             \/ call'.op \in {"mark_complete", "stop", "stop_all", "enable",
                               "cleanup"}
             \/ /\ call'.op \in {"play_sound", "play_music"}
                /\ call'.rule = 3
                /\ call'.slot = i]_vars

\* C21: the id a successful play returns is the value of next_sound_id at
\* the call, and next_sound_id never goes back over the whole lifetime of
\* the process, audio_cleanup followed by a new audio_init included: the
\* ids returned strictly increase and none is returned a second time.
C21_MonotonicIds ==
    [][/\ next_sound_id' >= next_sound_id
       /\ (/\ call'.op \in {"play_sound", "play_music"}
           /\ call'.ret > 0
           /\ next_sound_id' # next_sound_id) =>
             call'.ret = next_sound_id]_vars

\* C22: between calls a slot is free (active = 0) exactly when its playback
\* id is 0, and a free slot holds no buffer reference: the buffer field is
\* cleared when a voice is stopped, evicted or reaped.
C22_FreeSlotInvariant ==
    \A i \in Slots :
       /\ ~sources[i].active <=> sources[i].sound_id = 0
       /\ ~sources[i].active => sources[i].buffer = 0

\* C23: the buffer that get_available_buffer hands to a play that has been
\* given a slot is attached to no active voice of another slot, so no
\* sequence of plays has two active voices on one buffer.
C23_BufferExclusivity ==
    /\ \A i, j \in ActiveSlots :
          i # j => sources[i].buffer # sources[j].buffer
    /\ ~PlayRefused =>
          LET g == get_available_source(sources, al_state, active_sources)
              b == get_available_buffer(next_buffer_index)
          IN  g.idx >= 0 =>
                 \A j \in Slots \ {g.idx} :
                    g.sources[j].active => g.sources[j].buffer # b.idx + 1

\* C24: a looping voice leaves its slot only through audio_stop_sound with
\* its id, audio_stop_all_sounds (also from audio_enable(0)), audio_cleanup,
\* a completion reported from outside with its id, or the priority eviction
\* of an admission (rule 3); neither the reaper nor the finished-slot
\* reclamation of an admission (rule 2) releases it.
C24_LoopingPersistence ==
    [][\A i \in Slots :
          (/\ sources[i].active
           /\ sources[i].looping
           /\ sources'[i].sound_id # sources[i].sound_id) =>
              \/ call'.op \in {"stop", "stop_all", "enable", "cleanup",
                                "mark_complete"}
              \/ /\ call'.op \in {"play_sound", "play_music"}
                 /\ call'.rule = 3
                 /\ call'.slot = i]_vars

\* The calls that set a volume.
VolumeSetters ==
    {"set_master_volume", "set_music_volume", "set_sfx_volume"}

C26_PlayReturnsItsId ==
    /\ caller.pc = "play_start" =>
          /\ sources[caller.slot].active
          /\ sources[caller.slot].sound_id > 0
    /\ (call.op = "play_sound" /\ call.ret >= 0) => call.ret > 0

\* C27: between calls, whatever sequence of plays, stops, reaper passes and
\* audio_mark_complete calls (with any id, 0 and stale ids included) has
\* run, audio_get_active_sources is the number of active slots, and lies
\* between 0 and MAX_AUDIO_SOURCES.
C27_ActiveCountConsistency ==
    /\ active_sources = ActiveCount(sources)
    /\ active_sources \in 0..MAX_AUDIO_SOURCES

\* C28: whenever the engine is initialized on an open backend, the gain of
\* the listener is master_volume: 1.0 right after audio_init, and the
\* clamped argument after every audio_set_master_volume.
C28_ListenerTracksMaster ==
    (initialized /\ al_context) => al_listener_gain = master_volume

\* C29: the backend source of a free slot is never playing: every path that
\* frees a slot (audio_stop_sound, audio_stop_all_sounds, eviction, the
\* reaper, the finished-slot reclamation, audio_mark_complete reached from
\* OnPlaySoundComplete) stops the source or frees a source that has stopped.
C29_FreeSlotSilent ==
    \A i \in Slots : ~sources[i].active => al_state[i] # "playing"

\* C30: under every interleaving, the id the audio thread passes to the
\* completion callback is a nonzero id, and when the callback is invoked the
\* slot still is the one the thread released: its backend source has
\* stopped and no new voice has been set up in it (a voice that was
\* stopped, or one that has not started playing, is never reported).
C30_NoSpuriousCompletion ==
    /\ call.op = "callback" => call.ret > 0
    /\ reaper.pc = "callback" =>
          /\ ~sources[reaper.i].active
          /\ sources[reaper.i].sound_id > 0
          /\ al_state[reaper.i] = "stopped"

====
